---- MODULE Spec2Model ----
(***************************************************************************)
(* A model of the Rockstar interpreter of src/__main__.py: the line        *)
(* tokenizer, the line parser with its process-wide pronoun memory, the    *)
(* block-structuring pass, and the tree-walking evaluator with its         *)
(* function table.                                                         *)
(*                                                                         *)
(* Text is a sequence of one-character strings, so that the case tests,    *)
(* the letter counts and the scanning of the source are computed and not   *)
(* assumed.  Python's None is the empty sequence wherever a name is        *)
(* expected (a variable name is never empty).                              *)
(***************************************************************************)
EXTENDS Integers, Sequences, FiniteSets, TLC

(***************************************************************************)
(* Characters and the str methods the interpreter uses.                    *)
(***************************************************************************)
LowerLetters == <<"a","b","c","d","e","f","g","h","i","j","k","l","m",
                  "n","o","p","q","r","s","t","u","v","w","x","y","z">>
UpperLetters == <<"A","B","C","D","E","F","G","H","I","J","K","L","M",
                  "N","O","P","Q","R","S","T","U","V","W","X","Y","Z">>
DigitChars == <<"0","1","2","3","4","5","6","7","8","9">>

None == <<>>

\* Body applied to value: the value is computed once and named in Body.
With(value, Body(_)) == Body(value)

IndexOf(c, s) ==
    IF \E i \in 1..Len(s) : s[i] = c
    THEN CHOOSE i \in 1..Len(s) : s[i] = c /\ \A j \in 1..(i-1) : s[j] # c
    ELSE 0

c_islower(c) == IndexOf(c, LowerLetters) > 0
c_isupper(c) == IndexOf(c, UpperLetters) > 0
c_isalpha(c) == c_islower(c) \/ c_isupper(c)
c_isdigit(c) == IndexOf(c, DigitChars) > 0
c_isspace(c) == c \in {" ", "\t", "\n", "\r", "\f"}
c_lower(c) == IF c_isupper(c) THEN LowerLetters[IndexOf(c, UpperLetters)] ELSE c

\* str.lower()
lower(s) == [i \in 1..Len(s) |-> c_lower(s[i])]

\* str.islower(): no uppercase character and at least one cased character.
islower(s) ==
    /\ \E i \in 1..Len(s) : c_isalpha(s[i])
    /\ \A i \in 1..Len(s) : ~c_isupper(s[i])

\* str.istitle(): uppercase only after an uncased character, lowercase only
\* after a cased one, and at least one cased character.
istitle(s) ==
    /\ \E i \in 1..Len(s) : c_isalpha(s[i])
    /\ \A i \in 1..Len(s) :
          /\ c_isupper(s[i]) => (i = 1 \/ ~c_isalpha(s[i-1]))
          /\ c_islower(s[i]) => (i > 1 /\ c_isalpha(s[i-1]))

\* The Python slice s[a:b] for 0 <= a (0-based, b exclusive, clamped).
Slice(s, a, b) ==
    LET hi == IF b > Len(s) THEN Len(s) ELSE b
    IN  IF a >= hi THEN <<>> ELSE SubSeq(s, a + 1, hi)

\* s[a:]
From(s, a) == Slice(s, a, Len(s))

\* str.strip()
RECURSIVE lstrip(_)
lstrip(s) == IF s # <<>> /\ c_isspace(s[1]) THEN lstrip(Tail(s)) ELSE s
RECURSIVE rstrip(_)
rstrip(s) ==
    IF s # <<>> /\ c_isspace(s[Len(s)]) THEN rstrip(SubSeq(s, 1, Len(s) - 1)) ELSE s
strip(s) == rstrip(lstrip(s))

\* s.startswith(p) at 0-based offset a
StartsAt(s, a, p) ==
    /\ a + Len(p) <= Len(s)
    /\ \A i \in 1..Len(p) : s[a + i] = p[i]

\* str.find(p): the 0-based offset of the first occurrence of p, or -1.
find(s, p) ==
    IF \E a \in 0..Len(s) : StartsAt(s, a, p)
    THEN CHOOSE a \in 0..Len(s) :
            StartsAt(s, a, p) /\ \A b \in 0..(a-1) : ~StartsAt(s, b, p)
    ELSE -1

\* str.replace(old, new), old not empty: left to right, not overlapping.
RECURSIVE replace(_, _, _)
replace(s, old, new) ==
    IF s = <<>> THEN <<>>
    ELSE IF StartsAt(s, 0, old) THEN new \o replace(From(s, Len(old)), old, new)
    ELSE <<s[1]>> \o replace(Tail(s), old, new)

\* str.split(sep), sep not empty.
RECURSIVE split(_, _)
split(s, sep) ==
    LET a == find(s, sep)
    IN  IF a < 0 THEN <<s>>
        ELSE <<Slice(s, 0, a)>> \o split(From(s, a + Len(sep)), sep)

\* "_".join(parts)
RECURSIVE join(_, _)
join(sep, parts) ==
    IF parts = <<>> THEN <<>>
    ELSE IF Len(parts) = 1 THEN parts[1]
    ELSE parts[1] \o sep \o join(sep, Tail(parts))

\* list.index(x): the 0-based position of x, or -1 where Python raises ValueError.
index(list, x) == IndexOf(x, list) - 1

\* sum(map(lambda c: c.isalpha() or c == "-", t))
RECURSIVE count_letters(_)
count_letters(t) ==
    IF t = <<>> THEN 0
    ELSE (IF c_isalpha(t[1]) \/ t[1] = "-" THEN 1 ELSE 0) + count_letters(Tail(t))

\* int(token): an optional sign, then digits that single underscores may
\* separate.  int_ok says whether int() returns, int_of what it returns.
int_body(t) == IF t # <<>> /\ t[1] \in {"+", "-"} THEN Tail(t) ELSE t
int_ok(t) ==
    LET b == int_body(t)
    IN  /\ b # <<>>
        /\ c_isdigit(b[1]) /\ c_isdigit(b[Len(b)])
        /\ \A i \in 1..Len(b) : c_isdigit(b[i]) \/ b[i] = "_"
        /\ \A i \in 1..(Len(b) - 1) : ~(b[i] = "_" /\ b[i+1] = "_")
RECURSIVE digits_value(_, _)
digits_value(b, acc) ==
    IF b = <<>> THEN acc
    ELSE IF b[1] = "_" THEN digits_value(Tail(b), acc)
    ELSE digits_value(Tail(b), 10 * acc + (IndexOf(b[1], DigitChars) - 1))
int_of(t) ==
    IF t[1] = "-" THEN 0 - digits_value(int_body(t), 0) ELSE digits_value(int_body(t), 0)

(***************************************************************************)
(* tokenize: the three-state scan of one line.  tokenize_scan is the for   *)
(* loop: the tokens, the state and last_token_start it ends with.          *)
(***************************************************************************)
RECURSIVE tokenize_scan(_, _, _, _, _)
tokenize_scan(source, i, state, last_token_start, tokens) ==
    IF i >= Len(source)
    THEN [tokens |-> tokens, state |-> state, last_token_start |-> last_token_start]
    ELSE LET c == source[i + 1]
             flushed == Append(tokens, strip(Slice(source, last_token_start, i)))
         IN  IF state = "NORMAL" THEN
                 IF c_isspace(c) THEN
                     tokenize_scan(source, i + 1, "NORMAL", i + 1, flushed)
                 ELSE IF c = "," THEN
                     tokenize_scan(source, i + 1, "NORMAL", i + 1, Append(flushed, <<",">>))
                 ELSE IF c = "(" THEN
                     tokenize_scan(source, i + 1, "IN_COMMENT", i + 1, flushed)
                 ELSE IF c = "\"" THEN
                     tokenize_scan(source, i + 1, "IN_STRING", i, flushed)
                 ELSE tokenize_scan(source, i + 1, state, last_token_start, tokens)
             ELSE IF state = "IN_STRING" THEN
                 IF c = "\"" THEN
                     tokenize_scan(source, i + 1, "NORMAL", i + 1,
                                   Append(tokens, Slice(source, last_token_start, i + 1)))
                 ELSE tokenize_scan(source, i + 1, state, last_token_start, tokens)
             ELSE
                 IF c = ")" THEN tokenize_scan(source, i + 1, "NORMAL", i + 1, tokens)
                 ELSE tokenize_scan(source, i + 1, state, last_token_start, tokens)

\* The append after the for loop, and the filter of the empty tokens.
tokenize(source) ==
    With(tokenize_scan(source, 0, "NORMAL", 0, <<>>), LAMBDA scan :
        SelectSeq(Append(scan.tokens, strip(From(source, scan.last_token_start))),
                  LAMBDA x : x # <<>>))

(***************************************************************************)
(* Values.  A number is the exact fraction n/d in lowest terms (d >= 1);   *)
(* Python's binary floating point is idealised to exact arithmetic, the    *)
(* kind says which Python type carries it.                                 *)
(***************************************************************************)
RECURSIVE Gcd(_, _)
Gcd(a, b) == IF b = 0 THEN a ELSE Gcd(b, a % b)
Abs(a) == IF a < 0 THEN 0 - a ELSE a

Num(k, n, d) ==
    LET g == Gcd(Abs(n), d)
    IN  [k |-> k, n |-> n \div g, d |-> d \div g, s |-> <<>>]
IntV(i) == [k |-> "int", n |-> i, d |-> 1, s |-> <<>>]
BoolV(b) == [k |-> "bool", n |-> IF b THEN 1 ELSE 0, d |-> 1, s |-> <<>>]
StrV(s) == [k |-> "str", n |-> 0, d |-> 1, s |-> s]
NoneV == [k |-> "none", n |-> 0, d |-> 1, s |-> <<>>]
IsNum(v) == v.k \in {"int", "bool", "float"}

\* 10 ** points
RECURSIVE Pow10(_)
Pow10(p) == IF p = 0 THEN 1 ELSE 10 * Pow10(p - 1)

(***************************************************************************)
(* Statements and expression items.  An expression (TokenType.EXPRESSION,  *)
(* [...]) is modelled by its list of items.                                *)
(***************************************************************************)
Item(t, v, name, op, args) == [t |-> t, v |-> v, name |-> name, op |-> op, args |-> args]
CONSTANT_(v) == Item("CONSTANT", v, <<>>, "", <<>>)
VARIABLE_(name) == Item("VARIABLE", NoneV, name, "", <<>>)
OPERATOR_(op) == Item("OPERATOR", NoneV, <<>>, op, <<>>)
CALL_(name, args) == Item("CALL", NoneV, name, "", args)

Stmt(t, name, way, comp, expr, params, block) ==
    [t |-> t, name |-> name, way |-> way, comp |-> comp, expr |-> expr,
     params |-> params, block |-> block]
END_ == Stmt("END", <<>>, <<>>, FALSE, <<>>, <<>>, <<>>)
OUTPUT_(expr) == Stmt("OUTPUT", <<>>, <<>>, FALSE, expr, <<>>, <<>>)
INPUT_(var) == Stmt("INPUT", var, <<>>, FALSE, <<>>, <<>>, <<>>)
ASSIGNMENT_(var, expr) == Stmt("ASSIGNMENT", var, <<>>, FALSE, expr, <<>>, <<>>)
IF_(expr, block) == Stmt("IF", <<>>, <<>>, FALSE, expr, <<>>, block)
LOOP_(comp, expr, block) == Stmt("LOOP", <<>>, <<>>, comp, expr, <<>>, block)
TURN_(way, var) == Stmt("TURN", var, way, FALSE, <<>>, <<>>, <<>>)
FUNCTION_(name, params, block) == Stmt("FUNCTION", name, <<>>, FALSE, <<>>, params, block)
RETURN_(expr) == Stmt("RETURN", <<>>, <<>>, FALSE, expr, <<>>, <<>>)

type_is(exprs, typ) == exprs.t = typ

(***************************************************************************)
(* The variable-name parser and the process-wide last_parsed_variable.     *)
(* The parser context P carries last_parsed_variable (lpv) and, as a       *)
(* history, the names the successful matches returned (matches).           *)
(***************************************************************************)
is_simple_variable(token) == token # <<>> /\ islower(token)

is_proper_variable(token) == istitle(token)

Pronouns ==
    {<<"i","t">>, <<"h","e">>, <<"s","h","e">>, <<"h","i","m">>, <<"h","e","r">>, <<"t","h","e","y">>, <<"t","h","e","m">>, <<"z","e">>, <<"h","i","r">>,
     <<"z","i","e">>, <<"z","i","r">>, <<"x","e">>, <<"x","e","m">>, <<"v","e">>, <<"v","e","r">>}
is_pronoun(token) == lower(token) \in Pronouns

valid_prefixes == {<<"a">>, <<"a","n">>, <<"t","h","e">>, <<"m","y">>, <<"y","o","u","r">>}

\* The run of leading title-case tokens (the while loop of the proper form).
RECURSIVE proper_run(_)
proper_run(tokens) ==
    IF tokens # <<>> /\ is_proper_variable(tokens[1])
    THEN <<tokens[1]>> \o proper_run(Tail(tokens))
    ELSE <<>>

\* A variant of variable_result that remembers the name as it was spelled,
\* and lowercases only what it returns.
variable_result_spelled(variable_name, tokens, P, pronoun) ==
    IF variable_name = None
    THEN [var |-> None, tokens |-> tokens, P |-> P]
    ELSE With(lower(variable_name), LAMBDA name :
             [var |-> name, tokens |-> tokens,
              P |-> [lpv |-> variable_name,
                     matches |-> Append(P.matches, [name |-> name, pronoun |-> pronoun])]])

\* The tail of try_parse_variable_name: None, or remember and return the name.
variable_result(variable_name, tokens, P, pronoun) ==
    IF variable_name = None
    THEN [var |-> None, tokens |-> tokens, P |-> P]
    ELSE With(lower(variable_name), LAMBDA name :
             [var |-> name, tokens |-> tokens,
              P |-> [lpv |-> name,
                     matches |-> Append(P.matches, [name |-> name, pronoun |-> pronoun])]])

\* The if chain of try_parse_variable_name: the name as spelled (or None),
\* the tokens left, and whether a pronoun supplied the name.
variable_match(name, tokens, pronoun) == [name |-> name, tokens |-> tokens, pronoun |-> pronoun]
variable_name_of(tokens, P) ==
    IF tokens = <<>> THEN variable_match(None, tokens, FALSE)
    ELSE IF is_pronoun(tokens[1]) THEN variable_match(P.lpv, Tail(tokens), TRUE)
    ELSE IF tokens[1] \in valid_prefixes THEN
        IF Len(tokens) > 1 /\ is_simple_variable(tokens[2])
        THEN variable_match(tokens[1] \o <<"#">> \o tokens[2], From(tokens, 2), FALSE)
        ELSE variable_match(None, tokens, FALSE)
    ELSE IF is_proper_variable(tokens[1]) THEN
        With(proper_run(tokens), LAMBDA proper :
            variable_match(join(<<"_">>, proper), From(tokens, Len(proper)), FALSE))
    ELSE IF is_simple_variable(tokens[1]) THEN variable_match(tokens[1], Tail(tokens), FALSE)
    ELSE variable_match(None, tokens, FALSE)

try_parse_variable_name(tokens, P) ==
    With(variable_name_of(tokens, P), LAMBDA m :
        variable_result(m.name, m.tokens, P, m.pronoun))

(***************************************************************************)
(* Literals and operators.                                                 *)
(***************************************************************************)
\* One loop of parse_poetic_number_literals: the digits of the tokens up to
\* (integer part: and including) the first token holding a ".".
RECURSIVE poetic_integer(_, _)
poetic_integer(tokens, num) ==
    IF tokens = <<>> THEN [num |-> num, tokens |-> tokens]
    ELSE With(10 * num + (count_letters(tokens[1]) % 10), LAMBDA n :
             IF IndexOf(".", tokens[1]) > 0
             THEN [num |-> n, tokens |-> Tail(tokens)]
             ELSE poetic_integer(Tail(tokens), n))
RECURSIVE poetic_decimal(_, _, _)
poetic_decimal(tokens, decimal, points) ==
    IF tokens = <<>> THEN [decimal |-> decimal, points |-> points]
    ELSE poetic_decimal(Tail(tokens), 10 * decimal + (count_letters(tokens[1]) % 10),
                        points + 1)

\* num + (decimal * 10 ** -points): an int when points = 0 (10 ** 0 is the
\* int 1), a float otherwise.
parse_poetic_number_literals(tokens) ==
    With(poetic_integer(tokens, 0), LAMBDA a :
    With(poetic_decimal(a.tokens, 0, 0), LAMBDA b :
        IF b.points = 0 THEN CONSTANT_(IntV(a.num + b.decimal))
        ELSE CONSTANT_(Num("float", a.num * Pow10(b.points) + b.decimal, Pow10(b.points)))))

\* Only the opening quote is tested (startswith twice).
try_parse_string_literal(tokens) ==
    IF tokens # <<>> /\ StartsAt(tokens[1], 0, <<"\"">>)
    THEN [ok |-> TRUE, item |-> CONSTANT_(StrV(tokens[1])), tokens |-> Tail(tokens)]
    ELSE [ok |-> FALSE, item |-> CONSTANT_(NoneV), tokens |-> tokens]

try_parse_numeric_constant(tokens) ==
    IF tokens[1] \in {<<"n","u","l","l">>, <<"n","o","t","h","i","n","g">>, <<"n","o","w","h","e","r","e">>, <<"n","o","b","o","d","y">>, <<"e","m","p","t","y">>, <<"g","o","n","e">>}
    THEN [ok |-> TRUE, item |-> CONSTANT_(IntV(0)), tokens |-> Tail(tokens)]
    ELSE IF tokens[1] \in {<<"t","r","u","e">>, <<"r","i","g","h","t">>, <<"y","e","s">>, <<"o","k">>, <<"t","r","u","t","h">>}
    THEN [ok |-> TRUE, item |-> CONSTANT_(BoolV(TRUE)), tokens |-> Tail(tokens)]
    ELSE IF tokens[1] \in {<<"f","a","l","s","e">>, <<"w","r","o","n","g">>, <<"n","o">>, <<"l","i","e","s">>}
    THEN [ok |-> TRUE, item |-> CONSTANT_(BoolV(FALSE)), tokens |-> Tail(tokens)]
    ELSE IF int_ok(tokens[1])
    THEN [ok |-> TRUE, item |-> CONSTANT_(IntV(int_of(tokens[1]))), tokens |-> Tail(tokens)]
    ELSE [ok |-> FALSE, item |-> CONSTANT_(NoneV), tokens |-> tokens]

operator_result(op, tokens) == [ok |-> TRUE, item |-> OPERATOR_(op), tokens |-> tokens]

try_parse_operator(tokens) ==
    LET token == tokens[1]
    IN  IF token \in {<<"p","l","u","s">>, <<"w","i","t","h">>} THEN operator_result("add", Tail(tokens))
        ELSE IF token \in {<<"m","i","n","u","s">>, <<"w","i","t","h","o","u","t">>} THEN operator_result("sub", Tail(tokens))
        ELSE IF token \in {<<"t","i","m","e","s">>, <<"o","f">>} THEN operator_result("mul", Tail(tokens))
        ELSE IF token \in {<<"o","v","e","r">>} THEN operator_result("div", Tail(tokens))
        ELSE IF token = <<"i","s">> THEN
            IF Len(tokens) > 2 /\ tokens[2] = <<"n","o","t">>
            THEN operator_result("neq", From(tokens, 2))
            ELSE IF /\ Len(tokens) > 3 /\ tokens[3] \in {<<"t","h","e","n">>, <<"t","h","a","n">>}
                    /\ tokens[2] \in {<<"h","i","g","h","e","r">>, <<"g","r","e","a","t","e","r">>, <<"b","i","g","g","e","r">>, <<"s","t","r","o","n","g","e","r">>}
            THEN operator_result("gt", From(tokens, 3))
            ELSE IF /\ Len(tokens) > 3 /\ tokens[3] \in {<<"t","h","e","n">>, <<"t","h","a","n">>}
                    /\ tokens[2] \in {<<"l","o","w","e","r">>, <<"l","e","s","s">>, <<"s","m","a","l","l","e","r">>, <<"w","e","a","k","e","r">>}
            THEN operator_result("lt", From(tokens, 3))
            ELSE IF /\ Len(tokens) > 4 /\ tokens[2] = <<"a","s">> /\ tokens[4] = <<"a","s">>
                    /\ tokens[3] \in {<<"h","i","g","h">>, <<"g","r","e","a","t">>, <<"b","i","g">>, <<"s","t","r","o","n","g">>}
            THEN operator_result("geq", From(tokens, 4))
            ELSE IF /\ Len(tokens) > 4 /\ tokens[2] = <<"a","s">> /\ tokens[4] = <<"a","s">>
                    /\ tokens[3] \in {<<"l","o","w">>, <<"l","i","t","t","l","e">>, <<"s","m","a","l","l">>, <<"w","e","a","k">>}
            THEN operator_result("leq", From(tokens, 4))
            ELSE operator_result("eq", Tail(tokens))
        ELSE IF token = <<"i","s","n","t">> THEN operator_result("neq", Tail(tokens))
        ELSE IF token = <<"a","i","n","t">> THEN operator_result("neq", Tail(tokens))
        ELSE [ok |-> FALSE, item |-> OPERATOR_(""), tokens |-> tokens]

(***************************************************************************)
(* try_parse_expression.  Its while loop has no exit other than running    *)
(* out of tokens: an iteration in which no parser matches and no token is  *)
(* consumed repeats forever, which the result reports as hang.             *)
(***************************************************************************)
separators == {<<",">>, <<"a","n","d">>, <<"n">>}

\* The inner while loop of the "taking" branch: one argument chunk, and the
\* tokens after its separator.
RECURSIVE take_chunk(_, _)
take_chunk(tokens, chunk) ==
    IF tokens = <<>> THEN [chunk |-> chunk, tokens |-> tokens]
    ELSE IF tokens[1] \in separators THEN
        LET rest == Tail(tokens)
        IN  [chunk |-> chunk,
             tokens |-> IF rest # <<>> /\ rest[1] = <<"a","n","d">> THEN Tail(rest) ELSE rest]
    ELSE take_chunk(Tail(tokens), Append(chunk, tokens[1]))

RECURSIVE expression_loop(_, _, _)
RECURSIVE taking_loop(_, _, _)

try_parse_expression(tokens, P) == expression_loop(tokens, <<>>, P)

\* The outer while loop of the "taking" branch: every chunk is parsed as an
\* expression of its own and kept when it is not empty.
taking_loop(tokens, arguments, P) ==
    IF tokens = <<>> THEN [arguments |-> arguments, P |-> P, hang |-> FALSE]
    ELSE With(take_chunk(tokens, <<>>), LAMBDA c :
         With(try_parse_expression(c.chunk, P), LAMBDA var :
             IF var.hang THEN [arguments |-> arguments, P |-> var.P, hang |-> TRUE]
             ELSE taking_loop(c.tokens,
                              IF var.expr # <<>> THEN Append(arguments, var.expr)
                              ELSE arguments,
                              var.P)))

expression_loop(tokens, expression, P) ==
    IF tokens = <<>>
    THEN [expr |-> expression, tokens |-> tokens, P |-> P, hang |-> FALSE]
    ELSE IF Len(tokens) > 1 /\ tokens[2] = <<"t","a","k","i","n","g">> THEN
        With(taking_loop(From(tokens, 2), <<>>, P), LAMBDA a :
            IF a.hang
            THEN [expr |-> expression, tokens |-> tokens, P |-> a.P, hang |-> TRUE]
            ELSE expression_loop(<<>>, Append(expression, CALL_(tokens[1], a.arguments)), a.P))
    ELSE With(try_parse_operator(tokens), LAMBDA op :
         IF op.ok THEN expression_loop(op.tokens, Append(expression, op.item), P)
         ELSE With(try_parse_string_literal(tokens), LAMBDA literal :
         IF literal.ok
         THEN expression_loop(literal.tokens, Append(expression, literal.item), P)
         ELSE With(try_parse_numeric_constant(tokens), LAMBDA num :
         IF num.ok THEN expression_loop(num.tokens, Append(expression, num.item), P)
         ELSE With(try_parse_variable_name(tokens, P), LAMBDA var :
         IF var.var # None
         THEN expression_loop(var.tokens, Append(expression, VARIABLE_(var.var)), var.P)
         ELSE IF var.tokens # tokens THEN expression_loop(var.tokens, expression, var.P)
         ELSE [expr |-> expression, tokens |-> tokens, P |-> P, hang |-> TRUE]))))

(***************************************************************************)
(* parse_line.  A result is a statement, or the exception that leaves      *)
(* parse_line (exc: RockstarSyntaxError with its message, or the IndexError *)
(* or ValueError of an unguarded tokens[0], tokens[1] or tokens.index), or *)
(* hang when try_parse_expression never returns.  P is the parser context  *)
(* as the line leaves it, also when it raises.                             *)
(***************************************************************************)
line_result(stmt, P) == [stmt |-> stmt, exc |-> "", msg |-> "", hang |-> FALSE, P |-> P]
line_raise(exc, msg, P) == [stmt |-> END_, exc |-> exc, msg |-> msg, hang |-> FALSE, P |-> P]
line_hang(P) == [stmt |-> END_, exc |-> "", msg |-> "", hang |-> TRUE, P |-> P]
syntax_error(msg, P) == line_raise("RockstarSyntaxError", msg, P)

\* The comment stripping of parse_line: the text without its first
\* parenthesised comment, or bad when the parens do not pair up.
strip_comment(source) ==
    LET start == index(source, "(")
        end == index(source, ")")
    IN  IF start < 0 /\ end < 0 THEN [bad |-> FALSE, mod |-> source]
        ELSE IF start >= 0 /\ end >= 0 /\ start < end
        THEN [bad |-> FALSE, mod |-> Slice(source, 0, start) \o From(source, end + 1)]
        ELSE [bad |-> TRUE, mod |-> source]

assignment_words == {<<"b","e">>, <<"i","s">>, <<"a","r","e">>, <<"w","e","r","e">>, <<"w","a","s">>}

\* A statement that takes the rest of the line as its expression.
expression_statement(kind, tokens, P) ==
    With(try_parse_expression(tokens, P), LAMBDA e :
        IF e.hang THEN line_hang(e.P)
        ELSE IF kind = "OUTPUT" THEN
            IF e.tokens # <<>> THEN syntax_error("Unexpected tokens at end of line", e.P)
            ELSE line_result(OUTPUT_(e.expr), e.P)
        ELSE IF kind = "IF" THEN line_result(IF_(e.expr, <<>>), e.P)
        ELSE IF kind = "UNTIL" THEN line_result(LOOP_(FALSE, e.expr, <<>>), e.P)
        ELSE IF kind = "WHILE" THEN line_result(LOOP_(TRUE, e.expr, <<>>), e.P)
        ELSE line_result(RETURN_(e.expr), e.P))

try_parse_output(tokens, P) == expression_statement("OUTPUT", Tail(tokens), P)

try_parse_input(tokens, P) ==
    With(try_parse_variable_name(From(tokens, 2), P), LAMBDA v :
        IF v.var = None THEN syntax_error("Expected variable after output command", v.P)
        ELSE IF v.tokens # <<>> THEN syntax_error("Unexpected tokens at end of line", v.P)
        ELSE line_result(INPUT_(v.var), v.P))

parse_put(tokens0, P) ==
    LET tokens == Tail(tokens0)
        at == index(tokens, <<"i","n","t","o">>)
    IN  IF at < 0 THEN line_raise("ValueError", "'into' is not in list", P)
        ELSE With(try_parse_expression(Slice(tokens, 0, at), P), LAMBDA exprs :
             IF exprs.hang THEN line_hang(exprs.P)
             ELSE With(try_parse_variable_name(From(tokens, at + 1), exprs.P), LAMBDA v :
             IF v.var = None
             THEN syntax_error("Expected variable in assignment.", v.P)
             ELSE IF v.tokens # <<>>
             THEN syntax_error("Unexpected tokens at end of line", v.P)
             ELSE line_result(ASSIGNMENT_(v.var, exprs.expr), v.P)))

parse_let(tokens0, P) ==
    With(try_parse_variable_name(Tail(tokens0), P), LAMBDA v :
        IF v.var = None THEN syntax_error("Expected variable in assignment.", v.P)
        ELSE IF v.tokens = <<>> THEN line_raise("IndexError", "list index out of range", v.P)
        ELSE IF v.tokens[1] \notin assignment_words
        THEN syntax_error("Expected \"into\" after variable in assignment.", v.P)
        ELSE With(try_parse_expression(Tail(v.tokens), v.P), LAMBDA exprs :
             IF exprs.hang THEN line_hang(exprs.P)
             ELSE IF exprs.tokens # <<>>
             THEN syntax_error("Unexpected tokens at end of line", exprs.P)
             ELSE line_result(ASSIGNMENT_(v.var, exprs.expr), exprs.P)))

turn_ways == {<<"d","o","w","n">>, <<"u","p">>}

\* The variable of a Turn statement is not tested: it may be None.
parse_turn(tokens0, P) ==
    LET tokens == Tail(tokens0)
    IN  IF tokens = <<>> THEN line_raise("IndexError", "list index out of range", P)
        ELSE IF tokens[1] \in turn_ways THEN
            With(try_parse_variable_name(Tail(tokens), P), LAMBDA v :
                IF v.tokens # <<>>
                THEN syntax_error("Unexpected tokens at end of line", v.P)
                ELSE line_result(TURN_(tokens[1], v.var), v.P))
        ELSE
            With(try_parse_variable_name(tokens, P), LAMBDA v :
                IF v.tokens = <<>>
                THEN line_raise("IndexError", "list index out of range", v.P)
                ELSE IF v.tokens[1] \notin turn_ways
                THEN syntax_error("Expected \"up\" or \"down\" for turn statement.", v.P)
                ELSE IF Tail(v.tokens) # <<>>
                THEN syntax_error("Unexpected tokens at end of line", v.P)
                ELSE line_result(TURN_(v.tokens[1], v.var), v.P))

\* The argument loop of a function definition.
RECURSIVE function_arguments(_, _, _)
function_arguments(tokens, arguments, P) ==
    IF tokens = <<>> THEN [arguments |-> arguments, msg |-> "", P |-> P]
    ELSE With(try_parse_variable_name(tokens, P), LAMBDA v :
             IF v.var = None
             THEN [arguments |-> arguments, msg |-> "Failed to read argument list.", P |-> v.P]
             ELSE IF v.tokens # <<>> /\ v.tokens[1] \in separators THEN
                 LET rest == Tail(v.tokens)
                 IN  function_arguments(
                         IF rest # <<>> /\ rest[1] = <<"a","n","d">> THEN Tail(rest) ELSE rest,
                         Append(arguments, v.var), v.P)
             ELSE IF v.tokens # <<>>
             THEN [arguments |-> arguments, msg |-> "Invalid syntax for function", P |-> v.P]
             ELSE function_arguments(v.tokens, Append(arguments, v.var), v.P))

parse_function(tokens, P) ==
    With(function_arguments(From(tokens, 2), <<>>, P), LAMBDA a :
        IF a.msg # "" THEN syntax_error(a.msg, a.P)
        ELSE line_result(FUNCTION_(tokens[1], a.arguments, <<>>), a.P))

parse_give(tokens, P) ==
    IF tokens[2] # <<"b","a","c","k">> THEN syntax_error("Invalid \"Give back\" statement", P)
    ELSE expression_statement("RETURN", From(tokens, 2), P)

poetic_string_words == {<<"s","a","y","s">>, <<"s","h","o","u","t","s">>, <<"s","c","r","e","a","m","s">>, <<"w","i","s","p","e","r","s">>}

\* The poetic forms, tried when no keyword matched.
parse_poetic(source, tokens0, P) ==
    With(try_parse_variable_name(tokens0, P), LAMBDA v :
        IF v.var = None THEN syntax_error("Cannot parse line", v.P)
        ELSE IF v.tokens = <<>> THEN line_raise("IndexError", "list index out of range", v.P)
        ELSE IF v.tokens[1] \in assignment_words THEN
            line_result(ASSIGNMENT_(v.var, <<parse_poetic_number_literals(Tail(v.tokens))>>),
                        v.P)
        ELSE IF v.tokens[1] \in poetic_string_words THEN
            With(split(source, v.tokens[1]), LAMBDA pieces :
                IF Len(pieces) < 2
                THEN line_raise("IndexError", "list index out of range", v.P)
                ELSE line_result(ASSIGNMENT_(v.var, <<CONSTANT_(StrV(From(pieces[2], 1)))>>),
                                 v.P))
        ELSE syntax_error("Cannot parse line", v.P))

\* The keyword dispatch of parse_line on the tokens of the line.
parse_tokens(source, tokens, P) ==
    IF tokens = <<>> THEN line_result(END_, P)
    ELSE IF lower(tokens[1]) \in {<<"s","a","y">>, <<"s","h","o","u","t">>, <<"w","h","i","s","p","e","r">>, <<"s","c","r","e","a","m">>}
    THEN try_parse_output(tokens, P)
    ELSE IF Len(tokens) > 2 /\ lower(tokens[1]) = <<"l","i","s","t","e","n">> /\ tokens[2] = <<"t","o">>
    THEN try_parse_input(tokens, P)
    ELSE IF tokens[1] = <<"P","u","t">> THEN parse_put(tokens, P)
    ELSE IF tokens[1] = <<"L","e","t">> THEN parse_let(tokens, P)
    ELSE IF tokens[1] = <<"I","f">> THEN expression_statement("IF", Tail(tokens), P)
    ELSE IF tokens[1] = <<"U","n","t","i","l">> THEN expression_statement("UNTIL", Tail(tokens), P)
    ELSE IF tokens[1] = <<"W","h","i","l","e">> THEN expression_statement("WHILE", Tail(tokens), P)
    ELSE IF tokens[1] = <<"T","u","r","n">> THEN parse_turn(tokens, P)
    ELSE IF Len(tokens) < 2 THEN line_raise("IndexError", "list index out of range", P)
    ELSE IF tokens[2] = <<"t","a","k","e","s">> THEN parse_function(tokens, P)
    ELSE IF tokens[1] = <<"G","i","v","e">> THEN parse_give(tokens, P)
    ELSE parse_poetic(source, tokens, P)

parse_line(source, P) ==
    IF source # <<>> /\ c_islower(source[1])
    THEN syntax_error("Line doesn't start with capital letter", P)
    ELSE With(strip_comment(source), LAMBDA c :
         IF c.bad THEN syntax_error("Invalid comment", P)
         ELSE parse_tokens(source,
                           tokenize(replace(replace(c.mod, <<"'","s"," ">>, <<" ","i","s"," ">>), <<"'">>, <<>>)), P))

(***************************************************************************)
(* treeify: nests the statements after a block header under it.  Only a    *)
(* function header passes in_func; an If or Loop header recurses with the  *)
(* default, False.                                                         *)
(***************************************************************************)
RECURSIVE treeify_loop(_, _, _)

treeify(statements, in_func) == treeify_loop(statements, in_func, <<>>)

treeify_loop(statements, in_func, ast) ==
    IF statements = <<>> THEN [ast |-> ast, statements |-> statements, exc |-> ""]
    ELSE LET first == statements[1]
             rest == Tail(statements)
         IN  IF type_is(first, "END") THEN [ast |-> ast, statements |-> rest, exc |-> ""]
             ELSE IF type_is(first, "RETURN") THEN
                 IF ~in_func
                 THEN [ast |-> ast, statements |-> rest, exc |-> "RockstarSyntaxError"]
                 ELSE [ast |-> Append(ast, first), statements |-> rest, exc |-> ""]
             ELSE IF first.t \in {"IF", "LOOP", "FUNCTION"} THEN
                 With(treeify(rest, type_is(first, "FUNCTION")), LAMBDA b :
                     IF b.exc # "" THEN [ast |-> ast, statements |-> b.statements, exc |-> b.exc]
                     ELSE treeify_loop(b.statements, in_func,
                                       Append(ast, [first EXCEPT !.block = b.ast])))
             ELSE treeify_loop(rest, in_func, Append(ast, first))

\* The restructuring loop at the end of parse_source.
RECURSIVE treeify_all(_, _)
treeify_all(left, ast) ==
    IF left = <<>> THEN [ast |-> ast, exc |-> ""]
    ELSE With(treeify(left, FALSE), LAMBDA r :
             IF r.exc # "" THEN [ast |-> ast, exc |-> r.exc]
             ELSE treeify_all(r.statements, ast \o r.ast))

(***************************************************************************)
(* The evaluator.  The run state S carries what the recursive tree walk    *)
(* shares: G, the dict that is the default value of the function_table     *)
(* parameter of eval_statements (one object for the life of the process);  *)
(* the exception that is propagating (exc, "" for none); standard input    *)
(* and output; the fuel that cuts an unbounded walk short (exc "<cut>");   *)
(* and, as a history, the log of the definitions, calls, frames, loop      *)
(* iterations and turns of the run.                                        *)
(*                                                                         *)
(* A function table argument ft is either that default dict itself         *)
(* (default: an alias of S.G) or a private copy (map).                     *)
(***************************************************************************)
DefaultTable == [default |-> TRUE, map |-> <<>>]
CopyTable(map) == [default |-> FALSE, map |-> map]
Table(ft, S) == IF ft.default THEN S.G ELSE ft.map

Raise(S, exc) == IF exc = "" THEN S ELSE [S EXCEPT !.exc = exc]

\* A log entry: its kind e, the name it is about, a flag, two variable
\* environments a and b, and for a frame the parameters p and arguments x.
Event(e, name, flag, a, b, p, x) ==
    [e |-> e, name |-> name, flag |-> flag, a |-> a, b |-> b, p |-> p, x |-> x]
Log(S, ev) == [S EXCEPT !.log = Append(@, ev)]

\* variables[name] = val
Store(variables, name, val) ==
    [x \in (DOMAIN variables) \cup {name} |-> IF x = name THEN val ELSE variables[x]]

\* The order of the characters (their code points; printable ASCII but the backquote).
CharOrder == <<" ","!","\"","#","$","%","&","'","(",")","*","+",",","-",".","/","0","1","2","3","4","5","6","7","8","9",":",";","<","=",">","?","@","A","B","C","D","E","F","G","H","I","J","K","L","M","N","O","P","Q","R","S","T","U","V","W","X","Y","Z","[","\\","]","^","_","a","b","c","d","e","f","g","h","i","j","k","l","m","n","o","p","q","r","s","t","u","v","w","x","y","z","{","|","}","~">>
RECURSIVE str_lt(_, _)
str_lt(a, b) ==
    IF b = <<>> THEN FALSE
    ELSE IF a = <<>> THEN TRUE
    ELSE IF a[1] = b[1] THEN str_lt(Tail(a), Tail(b))
    ELSE IndexOf(a[1], CharOrder) < IndexOf(b[1], CharOrder)

\* str * int
RECURSIVE repeat(_, _)
repeat(s, n) == IF n <= 0 THEN <<>> ELSE s \o repeat(s, n - 1)

NumKind(l, r) == IF l.k = "float" \/ r.k = "float" THEN "float" ELSE "int"
num_eq(l, r) == l.n * r.d = r.n * l.d
num_lt(l, r) == l.n * r.d < r.n * l.d

\* left == right
py_eq(l, r) ==
    IF IsNum(l) /\ IsNum(r) THEN num_eq(l, r)
    ELSE IF l.k = "str" /\ r.k = "str" THEN l.s = r.s
    ELSE l.k = "none" /\ r.k = "none"

\* left < right, defined for two numbers and for two strings
py_lt(l, r) == IF IsNum(l) THEN num_lt(l, r) ELSE str_lt(l.s, r.s)
Ordered(l, r) == (IsNum(l) /\ IsNum(r)) \/ (l.k = "str" /\ r.k = "str")

\* bool(value)
truthy(v) == IF IsNum(v) THEN v.n # 0 ELSE v.s # <<>>

Value(v) == [val |-> v, exc |-> ""]
Throw(exc) == [val |-> NoneV, exc |-> exc]

\* The operator chain of eval_expression applied to left and right.
apply_operator(op, l, r) ==
    LET nums == IsNum(l) /\ IsNum(r)
    IN  IF op = "add" THEN
            IF nums THEN Value(Num(NumKind(l, r), l.n * r.d + r.n * l.d, l.d * r.d))
            ELSE IF l.k = "str" /\ r.k = "str" THEN Value(StrV(l.s \o r.s))
            ELSE Throw("TypeError")
        ELSE IF op = "sub" THEN
            IF nums THEN Value(Num(NumKind(l, r), l.n * r.d - r.n * l.d, l.d * r.d))
            ELSE Throw("TypeError")
        ELSE IF op = "mul" THEN
            IF nums THEN Value(Num(NumKind(l, r), l.n * r.n, l.d * r.d))
            ELSE IF l.k = "str" /\ r.k \in {"int", "bool"} THEN Value(StrV(repeat(l.s, r.n)))
            ELSE IF r.k = "str" /\ l.k \in {"int", "bool"} THEN Value(StrV(repeat(r.s, l.n)))
            ELSE Throw("TypeError")
        ELSE IF op = "div" THEN
            IF ~nums THEN Throw("TypeError")
            ELSE IF r.n = 0 THEN Throw("ZeroDivisionError")
            ELSE IF r.n < 0 THEN Value(Num("float", (0 - l.n) * r.d, l.d * (0 - r.n)))
            ELSE Value(Num("float", l.n * r.d, l.d * r.n))
        ELSE IF op = "eq" THEN Value(BoolV(py_eq(l, r)))
        ELSE IF op = "neq" THEN Value(BoolV(~py_eq(l, r)))
        ELSE IF ~Ordered(l, r) THEN Throw("TypeError")
        ELSE IF op = "lt" THEN Value(BoolV(py_lt(l, r)))
        ELSE IF op = "leq" THEN Value(BoolV(~py_lt(r, l)))
        ELSE IF op = "gt" THEN Value(BoolV(py_lt(r, l)))
        ELSE IF op = "geq" THEN Value(BoolV(~py_lt(l, r)))
        ELSE Value(l)

\* A variant of round that sends a tie to the integer above.
round_half_up(n, d) ==
    LET q == n \div d
        r == n % d
    IN  IF 2 * r < d THEN q ELSE q + 1

\* round(n/d): to the nearest integer, a tie to the even one.
round(n, d) ==
    LET q == n \div d
        r == n % d
    IN  IF 2 * r < d THEN q
        ELSE IF 2 * r > d THEN q + 1
        ELSE IF q % 2 = 0 THEN q ELSE q + 1

\* round(val + 0.5) for "up", round(val - 0.5) otherwise.
turn_value(kind, val) ==
    IF ~IsNum(val) THEN Throw("TypeError")
    ELSE IF kind = <<"u","p">> THEN Value(IntV(round(2 * val.n + val.d, 2 * val.d)))
    ELSE Value(IntV(round(2 * val.n - val.d, 2 * val.d)))

eval_evalable(evalable, variables) ==
    IF evalable.t = "CONSTANT" THEN Value(evalable.v)
    ELSE IF evalable.t = "VARIABLE" THEN
        IF evalable.name \notin DOMAIN variables THEN Throw("ValueError")
        ELSE Value(variables[evalable.name])
    ELSE Throw("ValueError")

\* A variant of new_local_vars that starts the callee from the caller's variables.
new_local_vars_closure(variables) == variables

\* The dict the comprehension of eval_function_call builds: a new, empty one.
new_local_vars(variables) == <<>>

RECURSIVE eval_expression(_, _, _, _)
RECURSIVE expression_rest(_, _, _, _, _)
RECURSIVE eval_function_call(_, _, _, _)
RECURSIVE bind_arguments(_, _, _, _, _, _)
RECURSIVE eval_statements(_, _, _, _)
RECURSIVE eval_statement(_, _, _, _)
RECURSIVE loop(_, _, _, _)

\* One operand of an expression: a call, or an evalable.
eval_operand(item, variables, ft, S) ==
    IF type_is(item, "CALL") THEN eval_function_call(item, variables, ft, S)
    ELSE With(eval_evalable(item, variables), LAMBDA r :
             [val |-> r.val, S |-> Raise(S, r.exc)])

eval_expression(expression, variables, ft, S) ==
    IF expression = <<>> THEN [val |-> NoneV, S |-> Raise(S, "IndexError")]
    ELSE With(eval_operand(expression[1], variables, ft, S), LAMBDA left :
             IF left.S.exc # "" THEN left
             ELSE expression_rest(Tail(expression), left.val, variables, ft, left.S))

\* The while loop of eval_expression: an operator, then its right operand.
expression_rest(expr, left, variables, ft, S) ==
    IF expr = <<>> THEN [val |-> left, S |-> S]
    ELSE IF Tail(expr) = <<>> THEN [val |-> NoneV, S |-> Raise(S, "IndexError")]
    ELSE With(eval_operand(expr[2], variables, ft, S), LAMBDA right :
         IF right.S.exc # "" THEN right
         ELSE IF ~type_is(expr[1], "OPERATOR")
         THEN [val |-> NoneV, S |-> Raise(right.S, "AssertionError")]
         ELSE With(apply_operator(expr[1].op, left, right.val), LAMBDA v :
         IF v.exc # "" THEN [val |-> NoneV, S |-> Raise(right.S, v.exc)]
         ELSE expression_rest(From(expr, 2), v.val, variables, ft, right.S)))

\* The dict comprehension of eval_function_call: each formal parameter that
\* zip pairs with an argument, bound in order to the argument's value in the
\* caller's variables.
bind_arguments(params, args, local_vars, variables, ft, S) ==
    IF params = <<>> \/ args = <<>> THEN [local_vars |-> local_vars, S |-> S]
    ELSE With(eval_expression(args[1], variables, ft, S), LAMBDA v :
             IF v.S.exc # "" THEN [local_vars |-> local_vars, S |-> v.S]
             ELSE bind_arguments(Tail(params), Tail(args),
                                 Store(local_vars, params[1], v.val), variables, ft, v.S))

\* The body of a call whose function was found: the arguments are bound, the
\* table is copied, the block runs on the new variables and the copy.
call_function(func, call, variables, ft, S) ==
    With(bind_arguments(func.params, call.args, new_local_vars(variables), variables, ft,
                        Log(S, Event("call", call.name, TRUE, variables, <<>>, <<>>, <<>>))),
         LAMBDA b :
    IF b.S.exc # "" THEN [val |-> NoneV, S |-> b.S]
    ELSE With(eval_statements(func.block, b.local_vars, CopyTable(Table(ft, b.S)),
                              Log(b.S, Event("frame", call.name, TRUE, variables,
                                             b.local_vars, func.params, call.args))),
              LAMBDA r :
         [val |-> r.ret,
          S |-> IF r.S.exc # "" THEN r.S
                ELSE Log(r.S, Event("return", call.name, TRUE, variables,
                                    r.variables, <<>>, <<>>))]))

eval_function_call(call, variables, ft, S) ==
    IF call.name \notin DOMAIN Table(ft, S)
    THEN [val |-> NoneV,
          S |-> Raise(Log(S, Event("call", call.name, FALSE, variables, <<>>, <<>>, <<>>)),
                      "ValueError")]
    ELSE IF S.fuel = 0 THEN [val |-> NoneV, S |-> Raise(S, "<cut>")]
    ELSE call_function(Table(ft, S)[call.name], call, variables, ft,
                       [S EXCEPT !.fuel = @ - 1])

\* function_table[name] = statement, on the default dict or on a copy.
register(statement, ft, S) ==
    LET ev == Event("def", statement.name, ft.default, <<>>, <<>>, <<>>, <<>>)
    IN  IF ft.default
        THEN [ft |-> ft, S |-> Log([S EXCEPT !.G = Store(@, statement.name, statement)], ev)]
        ELSE [ft |-> CopyTable(Store(ft.map, statement.name, statement)), S |-> Log(S, ev)]

eval_statements(statements, variables, ft, S) ==
    IF statements = <<>>
    THEN [ret |-> NoneV, variables |-> variables, ft |-> ft, S |-> S]
    ELSE IF type_is(statements[1], "FUNCTION") THEN
        With(register(statements[1], ft, S), LAMBDA g :
            eval_statements(Tail(statements), variables, g.ft, g.S))
    ELSE IF type_is(statements[1], "RETURN") THEN
        With(eval_expression(statements[1].expr, variables, ft, S), LAMBDA v :
            [ret |-> v.val, variables |-> variables, ft |-> ft, S |-> v.S])
    ELSE With(eval_statement(statements[1], variables, ft, S), LAMBDA r :
             IF r.S.exc # ""
             THEN [ret |-> NoneV, variables |-> r.variables, ft |-> ft, S |-> r.S]
             ELSE eval_statements(Tail(statements), r.variables, ft, r.S))

\* The while loop of a LOOP statement; its block runs on the default table.
loop(statement, variables, ft, S) ==
    With(eval_expression(statement.expr, variables, ft, S), LAMBDA c :
    IF c.S.exc # "" THEN [variables |-> variables, S |-> c.S]
    ELSE IF ~py_eq(c.val, BoolV(statement.comp)) THEN [variables |-> variables, S |-> c.S]
    ELSE IF c.S.fuel = 0 THEN [variables |-> variables, S |-> Raise(c.S, "<cut>")]
    ELSE With(eval_statements(statement.block, variables, DefaultTable,
                              Log([c.S EXCEPT !.fuel = @ - 1],
                                  Event("iteration", <<>>, statement.comp, variables,
                                        <<>>, <<>>, <<>>))),
              LAMBDA b :
         IF b.S.exc # "" THEN [variables |-> b.variables, S |-> b.S]
         ELSE loop(statement, b.variables, ft, b.S)))

eval_assignment(variable, expression, variables, ft, S) ==
    With(eval_expression(expression, variables, ft, S), LAMBDA v :
        IF v.S.exc # "" THEN [variables |-> variables, S |-> v.S]
        ELSE [variables |-> Store(variables, variable, v.val), S |-> v.S])

\* The TURN branch of eval_statement.
turn(statement, variables, S) ==
    With(IF statement.name = None THEN Throw("TypeError")
         ELSE eval_evalable(VARIABLE_(statement.name), variables), LAMBDA val :
    IF val.exc # "" THEN [variables |-> variables, S |-> Raise(S, val.exc)]
    ELSE With(turn_value(statement.way, val.val), LAMBDA new :
    IF new.exc # "" THEN [variables |-> variables, S |-> Raise(S, new.exc)]
    ELSE With(Store(variables, statement.name, new.val), LAMBDA after :
         [variables |-> after,
          S |-> Log(S, Event("turn", statement.name, statement.way = <<"u","p">>,
                             variables, after, <<>>, <<>>))])))

eval_statement(statement, variables, ft, S) ==
    IF type_is(statement, "ASSIGNMENT") THEN
        eval_assignment(statement.name, statement.expr, variables, ft, S)
    ELSE IF type_is(statement, "OUTPUT") THEN
        With(eval_expression(statement.expr, variables, ft, S), LAMBDA v :
            IF v.S.exc # "" THEN [variables |-> variables, S |-> v.S]
            ELSE [variables |-> variables, S |-> [v.S EXCEPT !.out = Append(@, v.val)]])
    ELSE IF type_is(statement, "INPUT") THEN
        IF S.stdin = <<>> THEN [variables |-> variables, S |-> Raise(S, "EOFError")]
        ELSE [variables |-> Store(variables, statement.name, StrV(S.stdin[1])),
              S |-> [S EXCEPT !.stdin = Tail(@)]]
    ELSE IF type_is(statement, "IF") THEN
        With(eval_expression(statement.expr, variables, ft, S), LAMBDA res :
            IF res.S.exc # "" THEN [variables |-> variables, S |-> res.S]
            ELSE IF truthy(res.val) THEN
                With(eval_statements(statement.block, variables, DefaultTable, res.S),
                     LAMBDA b : [variables |-> b.variables, S |-> b.S])
            ELSE [variables |-> variables, S |-> res.S])
    ELSE IF type_is(statement, "LOOP") THEN loop(statement, variables, ft, S)
    ELSE IF type_is(statement, "TURN") THEN turn(statement, variables, S)
    ELSE [variables |-> variables, S |-> Raise(S, "ValueError")]

\* run_program: a new variables dict, and the default function table.
run_program(ast, S) == eval_statements(ast, <<>>, DefaultTable, S)

(***************************************************************************)
(* The source files the process is run on, and the lines on its standard   *)
(* input.                                                                  *)
(***************************************************************************)
Sources == <<
    \* 1: the counter loop
    <<"P","u","t"," ","5"," ","i","n","t","o"," ","X","\n","U","n","t","i","l"," ","X"," ","i","s"," ","0","\n","T","u","r","n"," ","d","o","w","n"," ","X","\n">>,
    \* 2: Turn on 4.2
    <<"X"," ","i","s"," ","r","o","a","d","."," ","s","o","\n","T","u","r","n"," ","u","p"," ","X","\n","Y"," ","i","s"," ","r","o","a","d","."," ","s","o","\n","T","u","r","n"," ","d","o","w","n"," ","Y">>,
    \* 3: Turn on integers, even, odd and negative
    <<"P","u","t"," ","4"," ","i","n","t","o"," ","X","\n","T","u","r","n"," ","u","p"," ","X","\n","P","u","t"," ","3"," ","i","n","t","o"," ","Y","\n","T","u","r","n"," ","u","p"," ","Y","\n","P","u","t"," ","3"," ","i","n","t","o"," ","Z","\n","T","u","r","n"," ","d","o","w","n"," ","Z","\n","P","u","t"," ","0"," ","m","i","n","u","s"," ","3"," ","i","n","t","o"," ","W","\n","T","u","r","n"," ","d","o","w","n"," ","W">>,
    \* 4: Turn on 4.5
    <<"X"," ","i","s"," ","r","o","a","d","."," ","a","b","c","d","e","\n","T","u","r","n"," ","d","o","w","n"," ","X","\n","Y"," ","i","s"," ","r","o","a","d","."," ","a","b","c","d","e","\n","T","u","r","n"," ","u","p"," ","Y">>,
    \* 5: a lowercase line, then a one-word line
    <<"p","u","t"," ","5"," ","i","n","t","o"," ","x","\n","H","e","l","l","o","\n","P","u","t"," ","1"," ","i","n","t","o"," ","X">>,
    \* 6: two lines that fail among lines that parse
    <<"p","u","t"," ","5"," ","i","n","t","o"," ","x","\n","P","u","t"," ","1"," ","i","n","t","o"," ","X","\n","L","e","t"," ","X"," ","f","o","o"," ","5","\n","P","u","t"," ","2"," ","i","n","t","o"," ","Y">>,
    \* 7: Put without into
    <<"P","u","t"," ","5">>,
    \* 8: Let without be
    <<"L","e","t"," ","x">>,
    \* 9: Turn without up or down
    <<"T","u","r","n"," ","x">>,
    \* 10: Give back at the top level
    <<"P","u","t"," ","1"," ","i","n","t","o"," ","X","\n","G","i","v","e"," ","b","a","c","k"," ","X">>,
    \* 11: Give back in an If block of a function body
    <<"F","o","o"," ","t","a","k","e","s"," ","X","\n","I","f"," ","X"," ","i","s"," ","1","\n","G","i","v","e"," ","b","a","c","k"," ","2","\n","G","i","v","e"," ","b","a","c","k"," ","3","\n">>,
    \* 12: a function defined in a function body, called after the call returned
    <<"F","o","o"," ","t","a","k","e","s"," ","X","\n","B","a","r"," ","t","a","k","e","s"," ","Y","\n","G","i","v","e"," ","b","a","c","k"," ","Y","\n","P","u","t"," ","B","a","r"," ","t","a","k","i","n","g"," ","X"," ","i","n","t","o"," ","Z","\n","G","i","v","e"," ","b","a","c","k"," ","Z","\n","\n","P","u","t"," ","F","o","o"," ","t","a","k","i","n","g"," ","1"," ","i","n","t","o"," ","A","\n","P","u","t"," ","B","a","r"," ","t","a","k","i","n","g"," ","2"," ","i","n","t","o"," ","B">>,
    \* 13: a function defined in an If block of a function body
    <<"F","o","o"," ","t","a","k","e","s","\n","I","f"," ","1"," ","i","s"," ","1","\n","B","a","r"," ","t","a","k","e","s"," ","Z","\n","G","i","v","e"," ","b","a","c","k"," ","Z","\n","\n","G","i","v","e"," ","b","a","c","k"," ","B","a","r"," ","t","a","k","i","n","g"," ","3","\n","\n","P","u","t"," ","F","o","o"," ","t","a","k","i","n","g"," ","i","n","t","o"," ","X">>,
    \* 14: a pronoun before any variable
    <<"P","u","t"," ","5"," ","i","t"," ","i","n","t","o"," ","X">>,
    \* 15: two parameters, two arguments
    <<"A","d","d","e","r"," ","t","a","k","e","s"," ","A"," ","a","n","d"," ","B","\n","G","i","v","e"," ","b","a","c","k"," ","A"," ","p","l","u","s"," ","B","\n","\n","P","u","t"," ","A","d","d","e","r"," ","t","a","k","i","n","g"," ","1",","," ","2"," ","i","n","t","o"," ","X">>,
    \* 16: a call above its definition
    <<"P","u","t"," ","A","d","d","e","r"," ","t","a","k","i","n","g"," ","3",","," ","4"," ","i","n","t","o"," ","Y","\n","A","d","d","e","r"," ","t","a","k","e","s"," ","A"," ","a","n","d"," ","B","\n","G","i","v","e"," ","b","a","c","k"," ","A"," ","t","i","m","e","s"," ","B">>,
    \* 17: fewer arguments than parameters
    <<"F","o","o"," ","t","a","k","e","s"," ","A"," ","a","n","d"," ","B","\n","G","i","v","e"," ","b","a","c","k"," ","A","\n","\n","P","u","t"," ","F","o","o"," ","t","a","k","i","n","g"," ","1"," ","i","n","t","o"," ","X">>,
    \* 18: a function body reading a variable of its caller
    <<"P","u","t"," ","1"," ","i","n","t","o"," ","X","\n","F","o","o"," ","t","a","k","e","s"," ","A","\n","G","i","v","e"," ","b","a","c","k"," ","X","\n","\n","P","u","t"," ","F","o","o"," ","t","a","k","i","n","g"," ","2"," ","i","n","t","o"," ","Y">>,
    \* 19: a function body assigning and turning names its caller uses
    <<"P","u","t"," ","1"," ","i","n","t","o"," ","X","\n","F","o","o"," ","t","a","k","e","s"," ","X","\n","T","u","r","n"," ","u","p"," ","X","\n","P","u","t"," ","9"," ","i","n","t","o"," ","Y","\n","G","i","v","e"," ","b","a","c","k"," ","X","\n","\n","P","u","t"," ","3"," ","i","n","t","o"," ","Y","\n","P","u","t"," ","F","o","o"," ","t","a","k","i","n","g"," ","X"," ","i","n","t","o"," ","Z">>,
    \* 20: the three spellings of a variable, each followed by a pronoun
    <<"P","u","t"," ","1"," ","i","n","t","o"," ","a"," ","h","o","r","s","e","\n","P","u","t"," ","i","t"," ","i","n","t","o"," ","D","r"," ","F","e","e","l"," ","G","o","o","d","\n","P","u","t"," ","i","t"," ","i","n","t","o"," ","y","\n","P","u","t"," ","i","t"," ","i","n","t","o"," ","Z">>,
    \* 21: a variable parsed inside a call argument, then a pronoun
    <<"F","o","o"," ","t","a","k","e","s"," ","A","\n","G","i","v","e"," ","b","a","c","k"," ","A","\n","\n","P","u","t"," ","1"," ","i","n","t","o"," ","X","\n","L","e","t"," ","Z"," ","b","e"," ","F","o","o"," ","t","a","k","i","n","g"," ","X","\n","P","u","t"," ","i","t"," ","i","n","t","o"," ","W">>,
    \* 22: a token no parser recognises
    <<"P","u","t"," ","A","B","C"," ","i","n","t","o"," ","X">>,
    \* 23: Until and While with an assignment in the body
    <<"P","u","t"," ","0"," ","i","n","t","o"," ","N","\n","U","n","t","i","l"," ","N"," ","i","s"," ","3","\n","P","u","t"," ","N"," ","p","l","u","s"," ","1"," ","i","n","t","o"," ","N","\n","\n","W","h","i","l","e"," ","N"," ","i","s"," ","3","\n","P","u","t"," ","5"," ","i","n","t","o"," ","N","\n">>,
    \* 24: input and output, at the top level and in a function body
    <<"L","i","s","t","e","n"," ","t","o"," ","X","\n","S","a","y"," ","X","\n","F","o","o"," ","t","a","k","e","s"," ","A","\n","L","i","s","t","e","n"," ","t","o"," ","A","\n","G","i","v","e"," ","b","a","c","k"," ","A","\n","\n","P","u","t"," ","F","o","o"," ","t","a","k","i","n","g"," ","1"," ","i","n","t","o"," ","Y">>,
    \* 25: poetic literals, a possessive and a comment
    <<"T","o","m","m","y"," ","w","a","s"," ","a"," ","l","o","v","e","s","t","r","u","c","k"," ","l","a","d","y","k","i","l","l","e","r","\n","J","a","n","e","'","s"," ","m","a","d"," ","(","y","e","s",")","\n","X"," ","s","a","y","s"," ","h","e","l","l","o">>,
    \* 26: self recursion through an If block
    <<"D","o","w","n"," ","t","a","k","e","s"," ","N","\n","I","f"," ","N"," ","i","s"," ","g","r","e","a","t","e","r"," ","t","h","a","n"," ","0","\n","P","u","t"," ","D","o","w","n"," ","t","a","k","i","n","g"," ","N"," ","m","i","n","u","s"," ","1"," ","i","n","t","o"," ","M","\n","\n","G","i","v","e"," ","b","a","c","k"," ","N","\n","\n","P","u","t"," ","D","o","w","n"," ","t","a","k","i","n","g"," ","2"," ","i","n","t","o"," ","X">>
>>

Stdins == {<<>>, <<<<"7">>, <<"8">>>>}

\* The most runs of parse_source and run_program in one process.
MaxRuns == 2
\* The most loop iterations and calls of one run before the walk is cut.
MaxFuel == 8

(***************************************************************************)
(* The process.                                                            *)
(***************************************************************************)
VARIABLES
    pc,                    \* idle, parse_source, run_program, exit
    file,                  \* which source file the run reads
    stdin, stdout,         \* the run's standard input and output
    line_nr,               \* parse_source: the next line number
    tokens,                \* parse_source: the statements parsed so far
    success,               \* parse_source: no line has failed
    reports,               \* the syntax errors printed
    ast,                   \* the tree parse_source returned
    last_parsed_variable,  \* the module's global
    matches,               \* history: the names matched since the previous name
    function_table,        \* the default dict of eval_statements
    log,                   \* history: the events of the run
    state,                 \* the variables run_program returned
    result,                \* how the run ended
    runs,                  \* the runs started
    prev,                  \* history: how the run before ended, when it ran the same file
    unit                   \* one call of a parsing function on its own: input and return

vars == <<pc, file, stdin, stdout, line_nr, tokens, success, reports, ast,
          last_parsed_variable, matches, function_table, log, state, result, runs, prev,
          unit>>

NoResult == [kind |-> "none", exc |-> "", stage |-> ""]
Ended(kind, exc, stage) == [kind |-> kind, exc |-> exc, stage |-> stage]

source == Sources[file]
lines == split(source, <<"\n">>)

\* No parsing function is called on its own.
NoUnit == [fn |-> "", text |-> <<>>, tokens |-> <<>>, lpv |-> None, done |-> FALSE, ret |-> <<>>]

\* The process before it has read a source file.
Idle ==
    /\ pc = "idle"
    /\ file = 1
    /\ stdin = <<>>
    /\ stdout = <<>>
    /\ line_nr = 0
    /\ tokens = <<>>
    /\ success = TRUE
    /\ reports = <<>>
    /\ ast = <<>>
    /\ last_parsed_variable = None
    /\ matches = <<>>
    /\ function_table = <<>>
    /\ log = <<>>
    /\ state = <<>>
    /\ result = NoResult
    /\ runs = 0
    /\ prev = [file |-> 0, result |-> NoResult, state |-> <<>>]

Init == Idle /\ unit = NoUnit

\* The process reads a source file and calls parse_source; after a run has
\* ended, the same process may parse and run again.
Start(f, input) ==
    /\ pc \in {"idle", "exit"}
    /\ runs < MaxRuns
    /\ pc' = "parse_source"
    /\ file' = f
    /\ stdin' = input
    /\ stdout' = <<>>
    /\ line_nr' = 0
    /\ tokens' = <<>>
    /\ success' = TRUE
    /\ reports' = <<>>
    /\ ast' = <<>>
    /\ matches' = IF matches = <<>> THEN <<>>
                  ELSE <<[name |-> matches[Len(matches)].name, pronoun |-> FALSE]>>
    /\ log' = <<>>
    /\ state' = <<>>
    /\ result' = NoResult
    /\ runs' = runs + 1
    /\ prev' = IF pc = "exit" /\ f = file
               THEN [file |-> file, result |-> result, state |-> state]
               ELSE [file |-> 0, result |-> NoResult, state |-> <<>>]
    /\ UNCHANGED <<last_parsed_variable, function_table, unit>>

\* One iteration of the for loop of parse_source: parse_line in its try.
ParseLine ==
    /\ pc = "parse_source"
    /\ line_nr < Len(lines)
    /\ \E line \in {lines[line_nr + 1]} :
       \E r \in {parse_line(line, [lpv |-> last_parsed_variable, matches |-> matches])} :
           /\ last_parsed_variable' = r.P.lpv
           /\ matches' = r.P.matches
           /\ IF r.hang THEN
                  /\ pc' = "exit"
                  /\ result' = Ended("hang", "", "parse_line")
                  /\ UNCHANGED <<line_nr, tokens, success, reports>>
              ELSE IF r.exc = "RockstarSyntaxError" THEN
                  /\ success' = FALSE
                  /\ reports' = Append(reports, [source |-> line, filename |-> file,
                                                 line |-> line_nr, message |-> r.msg])
                  /\ line_nr' = line_nr + 1
                  /\ UNCHANGED <<pc, result, tokens>>
              ELSE IF r.exc # "" THEN
                  /\ pc' = "exit"
                  /\ result' = Ended("exception", r.exc, "parse_line")
                  /\ UNCHANGED <<line_nr, tokens, success, reports>>
              ELSE
                  /\ tokens' = Append(tokens, r.stmt)
                  /\ line_nr' = line_nr + 1
                  /\ UNCHANGED <<pc, result, success, reports>>
    /\ UNCHANGED <<file, stdin, stdout, ast, function_table, log, state, runs, prev, unit>>

\* The end of parse_source: failure, or the restructuring into a tree.
FinishParse ==
    /\ pc = "parse_source"
    /\ line_nr = Len(lines)
    /\ \E t \in {IF success THEN treeify_all(tokens, <<>>) ELSE [ast |-> <<>>, exc |-> ""]} :
           IF ~success THEN
               /\ pc' = "exit"
               /\ result' = Ended("parse_failed", "", "parse_source")
               /\ ast' = ast
           ELSE IF t.exc # "" THEN
               /\ pc' = "exit"
               /\ result' = Ended("exception", t.exc, "treeify")
               /\ ast' = ast
           ELSE
               /\ pc' = "run_program"
               /\ result' = result
               /\ ast' = t.ast
    /\ UNCHANGED <<file, stdin, stdout, line_nr, tokens, success, reports,
                   last_parsed_variable, matches, function_table, log, state, runs, prev, unit>>

\* run_program(ast), from its first statement to its return or its exception.
RunProgram ==
    /\ pc = "run_program"
    /\ \E r \in {run_program(ast, [G |-> function_table, exc |-> "", stdin |-> stdin,
                                    out |-> stdout, fuel |-> MaxFuel, log |-> <<>>])} :
           /\ function_table' = r.S.G
           /\ stdin' = r.S.stdin
           /\ stdout' = r.S.out
           /\ log' = r.S.log
           /\ state' = IF r.S.exc = "" THEN r.variables ELSE <<>>
           /\ result' = IF r.S.exc = "" THEN Ended("state", "", "run_program")
                        ELSE IF r.S.exc = "<cut>" THEN Ended("cut", "", "run_program")
                        ELSE Ended("exception", r.S.exc, "run_program")
    /\ pc' = "exit"
    /\ UNCHANGED <<file, line_nr, tokens, success, reports, ast,
                   last_parsed_variable, matches, runs, prev, unit>>

Next ==
    \/ \E f \in 1..Len(Sources), input \in Stdins : Start(f, input)
    \/ ParseLine
    \/ FinishParse
    \/ RunProgram

Spec == Init /\ [][Next]_vars

(***************************************************************************)
(* The parsing functions called on their own: tokenize on every short      *)
(* text, try_parse_expression and try_parse_variable_name on every short   *)
(* list of tokens, before and after a variable has been remembered.        *)
(***************************************************************************)
\* The longest text given to tokenize.
MaxText == 4
\* The longest token list given to the parsers.
MaxTokens == 3

\* A letter, white space, and the characters the scan of tokenize acts on.
Chars == {"a", " ", ",", "(", ")", "\""}
Texts == UNION {[1..k -> Chars] : k \in 0..MaxText}

\* A simple variable, a number, an operator, a pronoun, a determiner, a word
\* that is neither lowercase nor title case, a proper variable, the call
\* keyword, a separator and a string literal.
Words == {<<"x">>, <<"1">>, <<"p","l","u","s">>, <<"i","t">>, <<"t","h","e">>, <<"A","B","C">>, <<"F","o","o">>, <<"t","a","k","i","n","g">>, <<",">>, <<"\"","s">>}
TokenLists == UNION {[1..k -> Words] : k \in 0..MaxTokens}

\* last_parsed_variable before any match, and after a match of y.
Remembered == {None, <<"y">>}

process_vars == <<pc, file, stdin, stdout, line_nr, tokens, success, reports, ast,
                  last_parsed_variable, matches, function_table, log, state, result,
                  runs, prev>>

Unit(fn, text, toks, lpv) ==
    [fn |-> fn, text |-> text, tokens |-> toks, lpv |-> lpv, done |-> FALSE, ret |-> <<>>]

InitUnits ==
    /\ Idle
    /\ \/ \E text \in Texts : unit = Unit("tokenize", text, <<>>, None)
       \/ \E toks \in TokenLists, lpv \in Remembered :
              unit = Unit("try_parse_expression", <<>>, toks, lpv)
       \/ \E toks \in TokenLists, lpv \in Remembered :
              unit = Unit("try_parse_variable_name", <<>>, toks, lpv)

\* tokenize(text): the tokens it returns, and the state and last_token_start
\* its for loop ended with.
Tokenize ==
    /\ unit.fn = "tokenize" /\ ~unit.done
    /\ \E scan \in {tokenize_scan(unit.text, 0, "NORMAL", 0, <<>>)} :
           unit' = [unit EXCEPT !.done = TRUE,
                                !.ret = [tokens |-> tokenize(unit.text),
                                         state |-> scan.state,
                                         last_token_start |-> scan.last_token_start]]
    /\ UNCHANGED process_vars

\* try_parse_expression(tokens): what it returns, or that it never returns.
ParseExpression ==
    /\ unit.fn = "try_parse_expression" /\ ~unit.done
    /\ \E r \in {try_parse_expression(unit.tokens, [lpv |-> unit.lpv, matches |-> <<>>])} :
           unit' = [unit EXCEPT !.done = TRUE,
                                !.ret = [expr |-> r.expr, tokens |-> r.tokens,
                                         hang |-> r.hang, lpv |-> r.P.lpv]]
    /\ UNCHANGED process_vars

\* try_parse_variable_name(tokens): what it returns, and the global after it.
ParseVariableName ==
    /\ unit.fn = "try_parse_variable_name" /\ ~unit.done
    /\ \E r \in {try_parse_variable_name(unit.tokens, [lpv |-> unit.lpv, matches |-> <<>>])} :
           unit' = [unit EXCEPT !.done = TRUE,
                                !.ret = [var |-> r.var, tokens |-> r.tokens,
                                         lpv |-> r.P.lpv]]
    /\ UNCHANGED process_vars

NextUnits ==
    \/ Tokenize
    \/ ParseExpression
    \/ ParseVariableName

SpecUnits == InitUnits /\ [][NextUnits]_vars

(***************************************************************************)
(* The properties.                                                         *)
(***************************************************************************)
EventsOf(kind) == {i \in 1..Len(log) : log[i].e = kind}
SeqSet(s) == {s[i] : i \in 1..Len(s)}
Min(a, b) == IF a < b THEN a ELSE b

\* C1: when at least one line has failed to parse, parse_source has gone on
\* to attempt every remaining line, has reported each failing line with its
\* zero-based line number, has returned failure and no tree, and the
\* evaluator has not started.
C1_FailureAfterEveryLine ==
    (pc = "exit" /\ ~success) =>
        /\ result.kind = "parse_failed"
        /\ line_nr = Len(lines)
        /\ \A i \in 1..Len(reports) : reports[i].source = lines[reports[i].line + 1]
        /\ ast = <<>> /\ log = <<>> /\ state = <<>>

\* C2: a line that leaves parse_line without a statement leaves it with a
\* RockstarSyntaxError: no other exception escapes the parse of a line.
C2_OnlySyntaxErrors ==
    (pc = "exit" /\ result.stage = "parse_line" /\ result.kind = "exception") =>
        result.exc = "RockstarSyntaxError"

\* C3: a call finds its function only when the run has executed a
\* definition statement of that name before the call.
C3_CallAfterDefinition ==
    \A j \in EventsOf("call") :
        log[j].flag => \E i \in 1..(j - 1) : log[i].e = "def" /\ log[i].name = log[j].name

\* C4: the counter program (Put 5 into X, Until X is 0, Turn down X) ends
\* after exactly five iterations of its loop, with X equal to 0.
C4_CounterLoopRunsFiveTimes ==
    (file = 1 /\ pc = "exit") =>
        /\ result.kind = "state"
        /\ Cardinality(EventsOf("iteration")) = 5
        /\ state[<<"x">>].n = 0

\* C5: Turn up stores round(value + 0.5) and Turn down round(value - 0.5), an
\* integer nearest to that number with a tie going to the even integer, in
\* the variable it names and changes no other variable; 4.2 turns up to 5
\* and down to 4.
C5_TurnRounds ==
    \A i \in EventsOf("turn") :
        LET ev == log[i]
            v == ev.a[ev.name]
            r == ev.b[ev.name]
            \* value + 0.5 or value - 0.5, as a count of 1/(2 * v.d)
            target == IF ev.flag THEN 2 * v.n + v.d ELSE 2 * v.n - v.d
            off == Abs(r.n * 2 * v.d - target)
        IN  /\ r.k = "int" /\ r.d = 1
            /\ off <= v.d
            /\ (off = v.d) => (r.n % 2 = 0)
            /\ DOMAIN ev.b = DOMAIN ev.a
            /\ \A y \in DOMAIN ev.a \ {ev.name} : ev.b[y] = ev.a[y]
            /\ (10 * v.n = 42 * v.d) => (r.n = IF ev.flag THEN 5 ELSE 4)

\* A run that has turned 4.2 up and 4.2 down.
C5_Witness ==
    /\ pc = "exit" /\ result.kind = "state"
    /\ \E i, j \in EventsOf("turn") :
          /\ log[i].flag /\ ~log[j].flag
          /\ 10 * log[i].a[log[i].name].n = 42 * log[i].a[log[i].name].d
          /\ 10 * log[j].a[log[j].name].n = 42 * log[j].a[log[j].name].d

\* The source has no input and no output statement.
NoInputOutput(f) ==
    \A word \in {<<"l","i","s","t","e","n">>, <<"s","a","y"," ">>, <<"s","h","o","u","t">>, <<"w","h","i","s","p","e","r">>, <<"s","c","r","e","a","m">>} :
        find(lower(Sources[f]), word) < 0

\* C6: a program without input and output that ran to its end state ends the
\* same way, with the same state, when the same process parses and runs it
\* again.
C6_RunsAreIndependent ==
    (pc = "exit" /\ prev.file = file /\ prev.result.kind = "state" /\ NoInputOutput(file)) =>
        /\ result = prev.result
        /\ state = prev.state

\* The value of an argument that is one constant or one variable.
ArgumentValue(arg, variables) ==
    IF arg[1].t = "CONSTANT" THEN arg[1].v ELSE variables[arg[1].name]

\* The frame of a call binds the first n formal parameters and nothing else,
\* each to the value its argument has in the caller's variables.
FrameBinds(ev, n) ==
    /\ DOMAIN ev.b = {ev.p[k] : k \in 1..n}
    /\ \A k \in 1..Min(n, Len(ev.x)) :
          ( /\ Len(ev.x[k]) = 1
            /\ ev.x[k][1].t \in {"CONSTANT", "VARIABLE"}
            /\ \A m \in (k + 1)..n : ev.p[m] # ev.p[k] )
          => ev.b[ev.p[k]] = ArgumentValue(ev.x[k], ev.a)

\* A call that returned left its caller's variables as they were, and the
\* program whose function turns and assigns names its caller uses ends with
\* the caller's values.
CallerUnchanged ==
    /\ \A j \in EventsOf("return") :
          \E i \in 1..(j - 1) :
              log[i].e = "frame" /\ log[i].name = log[j].name /\ log[i].a = log[j].a
    /\ (file = 19 /\ result.kind = "state") =>
          /\ state[<<"x">>] = IntV(1)
          /\ state[<<"y">>] = IntV(3)
          /\ state[<<"z">>] = IntV(2)

\* C7, as stated: the environment of a call holds exactly the formal
\* parameters, bound in order to the arguments' values in the caller's
\* variables, and the call leaves the caller's variables unchanged.
C7_FrameHoldsEveryParameter ==
    /\ \A i \in EventsOf("frame") : FrameBinds(log[i], Len(log[i].p))
    /\ CallerUnchanged

\* C7, amended: the environment of a call holds exactly the formal
\* parameters that have an argument (the first min(parameters, arguments) of
\* them, so all of them when every parameter has an argument), bound in
\* order to the arguments' values in the caller's variables, and the call
\* leaves the caller's variables unchanged.
C7_FrameHoldsPairedParameters ==
    /\ \A i \in EventsOf("frame") :
          FrameBinds(log[i], Min(Len(log[i].p), Len(log[i].x)))
    /\ CallerUnchanged

\* A call with fewer arguments than parameters has bound the parameters that
\* have an argument, and a call has returned.
C7_Witness ==
    /\ \E i \in EventsOf("frame") :
          Len(log[i].x) < Len(log[i].p) /\ DOMAIN log[i].b # {}
    /\ EventsOf("return") # {}

\* Whether a Return lies outside every function body: the blocks open at a
\* statement are those of the headers before it that no blank line or Return
\* has closed.
RECURSIVE ReturnOutside(_, _)
ReturnOutside(statements, open) ==
    IF statements = <<>> THEN FALSE
    ELSE LET first == statements[1]
             shut == IF open = <<>> THEN <<>> ELSE SubSeq(open, 1, Len(open) - 1)
         IN  IF first.t = "END" THEN ReturnOutside(Tail(statements), shut)
             ELSE IF first.t = "RETURN"
             THEN "FUNCTION" \notin SeqSet(open) \/ ReturnOutside(Tail(statements), shut)
             ELSE IF first.t \in {"IF", "LOOP", "FUNCTION"}
             THEN ReturnOutside(Tail(statements), Append(open, first.t))
             ELSE ReturnOutside(Tail(statements), open)

\* C8: treeify rejects a program only for a Return that lies outside every
\* function body; a Return in an If or Loop block nested in a function body
\* is accepted.
C8_ReturnInFunctionAccepted ==
    (pc = "exit" /\ result.stage = "treeify") => ReturnOutside(tokens, <<>>)

\* The pronoun memory is the name of the latest match, a pronoun stands for
\* the name matched just before it, names are lowercase, and the statements
\* of the pronoun programs name the variables the pronouns stand for.
PronounMemory ==
    /\ last_parsed_variable =
           IF matches = <<>> THEN None ELSE matches[Len(matches)].name
    /\ \A i \in 1..Len(matches) :
          /\ matches[i].name = lower(matches[i].name)
          /\ matches[i].pronoun => (i > 1 /\ matches[i].name = matches[i - 1].name)
    /\ (file = 20 /\ Len(tokens) = 4) =>
          /\ tokens[2] = ASSIGNMENT_(<<"d","r","_","f","e","e","l","_","g","o","o","d">>, <<VARIABLE_(<<"a","#","h","o","r","s","e">>)>>)
          /\ tokens[3] = ASSIGNMENT_(<<"y">>, <<VARIABLE_(<<"d","r","_","f","e","e","l","_","g","o","o","d">>)>>)
          /\ tokens[4] = ASSIGNMENT_(<<"z">>, <<VARIABLE_(<<"y">>)>>)
    /\ (file = 21 /\ Len(tokens) = 6) =>
          tokens[6] = ASSIGNMENT_(<<"w">>, <<VARIABLE_(<<"x">>)>>)

\* C9: every successful match of a variable name, also one nested in a call
\* argument, makes that lowercase name what the next pronoun stands for; the
\* memory lasts across parses, and the evaluator never changes it.
C9_PronounIsLatestMatch ==
    /\ []PronounMemory
    /\ [][pc = "run_program" => last_parsed_variable' = last_parsed_variable]_vars

\* A second parse in the process has resolved a pronoun that follows a
\* variable matched inside a call argument.
C9_Witness ==
    /\ runs > 1 /\ file = 21 /\ Len(tokens) = 6
    /\ \E i \in 2..Len(matches) : matches[i].pronoun /\ matches[i].name = <<"x">>

\* C10: there is one function table: a definition executed in any statement
\* list is found by every call the run makes afterwards.
C10_OneFunctionTable ==
    \A i \in EventsOf("def") : \A j \in EventsOf("call") :
        (i < j /\ log[i].name = log[j].name) => log[j].flag

\* C11: try_parse_expression returns on every finite token list, and returns
\* with no tokens left: it never loops without consuming a token.
C11_ExpressionConsumesAll ==
    (unit.fn = "try_parse_expression" /\ unit.done) =>
        /\ ~unit.ret.hang
        /\ unit.ret.tokens = <<>>

\* C12: try_parse_variable_name returns a lowercase name and what is left of
\* the tokens after the prefix it consumed, or it returns no match, the
\* tokens exactly as given, and leaves last_parsed_variable as it was.
C12_NoMatchLeavesTokens ==
    (unit.fn = "try_parse_variable_name" /\ unit.done) =>
        IF unit.ret.var = None
        THEN /\ unit.ret.tokens = unit.tokens
             /\ unit.ret.lpv = unit.lpv
        ELSE /\ unit.ret.var = lower(unit.ret.var)
             /\ \E k \in 1..Len(unit.tokens) : unit.ret.tokens = From(unit.tokens, k)

\* The tokens occur in the text one after another, from left to right.
RECURSIVE InSourceOrder(_, _)
InSourceOrder(toks, text) ==
    \/ toks = <<>>
    \/ /\ find(text, toks[1]) >= 0
       /\ InSourceOrder(Tail(toks), From(text, find(text, toks[1]) + Len(toks[1])))

\* Where the quote or the paren stands that the scan was still inside of when
\* the text ended (0-based): a string token starts at its quote, the text
\* after a comment's paren starts one after it.
Opening(ret) ==
    IF ret.state = "IN_STRING" THEN ret.last_token_start ELSE ret.last_token_start - 1

\* C13: tokenize returns only non-empty tokens, in the order of the text; and
\* when the text ends inside a string or a comment, the text that follows the
\* opening quote or paren (when it is not blank) is dropped: the tokens are
\* those of the text before the quote or paren.
C13_UnterminatedTailDropped ==
    (unit.fn = "tokenize" /\ unit.done) =>
        /\ \A k \in 1..Len(unit.ret.tokens) : unit.ret.tokens[k] # <<>>
        /\ InSourceOrder(unit.ret.tokens, unit.text)
        /\ unit.ret.state \in {"NORMAL", "IN_STRING", "IN_COMMENT"}
        /\ (unit.ret.state # "NORMAL" /\ strip(From(unit.text, Opening(unit.ret) + 1)) # <<>>) =>
               unit.ret.tokens = tokenize(Slice(unit.text, 0, Opening(unit.ret)))

====
